---------------------------- MODULE Spec2Model ----------------------------
(***************************************************************************)
(* A model of src/protocol.rs of mcproto-rs: the macros proto_byte_flag,   *)
(* proto_enum_with_type, counted_array_type, __protocol_body_def_helper    *)
(* and define_protocol, expanded for one small protocol.                   *)
(*                                                                         *)
(* A byte is a number in 0..255, a buffer (&[u8]) is a sequence of bytes.  *)
(* A DeserializeResult is [ok |-> TRUE, value |-> v, data |-> rest] or     *)
(* [ok |-> FALSE, err |-> e].                                              *)
(***************************************************************************)
EXTENDS Integers, Sequences, FiniteSets, TLC

VARIABLES
    flags,      \* the packed bit-flag record: its byte, self.0
    flagCall,   \* the last accessor call on the record, its arguments and result
    sink,       \* the buffer: what a Serializer was given, or what was received
    sent,       \* the value whose mc_serialize filled the sink, and its length
    last        \* the last mc_deserialize call on the sink and what it returned

vars == <<flags, flagCall, sink, sent, last>>

---------------------------------------------------------------------------
(* Bounds of the model *)

\* longest Vec a generated counted sequence holds
MaxLen == 2
\* longest buffer received from outside
MaxData == 3
\* most bytes written to the sink after a serialized value
MaxSuffix == 1

\* the byte values the inputs are drawn from
ByteSamples == {0, 1, 2, 255}

\* the byte values written after a serialized value
SuffixBytes == {2, 255}

\* all values of u8
U8 == 0..255

---------------------------------------------------------------------------
(* u8 arithmetic of the flag accessors *)

RECURSIVE BitAnd(_, _)
BitAnd(a, b) ==
    IF a = 0 \/ b = 0 THEN 0
    ELSE (a % 2) * (b % 2) + 2 * BitAnd(a \div 2, b \div 2)

RECURSIVE BitOr(_, _)
BitOr(a, b) ==
    IF a = 0 THEN b
    ELSE IF b = 0 THEN a
    ELSE (IF a % 2 = 1 \/ b % 2 = 1 THEN 1 ELSE 0) + 2 * BitOr(a \div 2, b \div 2)

RECURSIVE BitXor(_, _)
BitXor(a, b) ==
    IF a = 0 THEN b
    ELSE IF b = 0 THEN a
    ELSE ((a + b) % 2) + 2 * BitXor(a \div 2, b \div 2)

---------------------------------------------------------------------------
(* proto_byte_flag!(AbilityFlags, 0x01 :: invulnerable, 0x02 :: flying,    *)
(*                  0x04 :: allow_flying, 0x08 :: instant_break,           *)
(*                  0x06 :: airborne)                                      *)
(* The macro takes any u8 literal as a mask: airborne has two bits, which  *)
(* it shares with flying and allow_flying.                                 *)

FlagTable ==
    << [bval |-> 1, nam |-> "invulnerable"],
       [bval |-> 2, nam |-> "flying"],
       [bval |-> 4, nam |-> "allow_flying"],
       [bval |-> 8, nam |-> "instant_break"],
       [bval |-> 6, nam |-> "airborne"] >>

FlagMasks == {FlagTable[i].bval : i \in DOMAIN FlagTable}

\* is_<nam>(&self): self.0 & $bval != 0
is_(self, bval) == BitAnd(self, bval) # 0

\* a set_ that assigns the mask instead of or-ing it in
set_Assign(self, bval, value) ==
    IF value THEN bval ELSE BitXor(self, bval)

\* set_<nam>(&mut self, value): the byte self.0 holds afterwards
set_(self, bval, value) ==
    IF value THEN BitOr(self, bval) ELSE BitXor(self, bval)

\* with_<nam>(mut self, value) -> Self: the byte of the record returned
with_(self, bval, value) ==
    IF value THEN BitOr(self, bval) ELSE BitXor(self, bval)

---------------------------------------------------------------------------
(* The wire codec contract: DeserializeResult, Deserialized::ok, Err *)

Deserialized_ok(value, data) == [ok |-> TRUE, value |-> value, data |-> data]

Err(e) == [ok |-> FALSE, err |-> e]

\* DeserializeErr: the buffer ends before the value does
InsufficientData == [kind |-> "InsufficientData"]

\* DeserializeErr::CannotUnderstandValue(format!("invalid {} {}", typname, id))
CannotUnderstandValue(typname, id) ==
    [kind |-> "CannotUnderstandValue", typname |-> typname, id |-> id]

\* u8::mc_serialize: Serializer::serialize_byte, one byte
u8_mc_serialize(v) == << v >>

\* u8::mc_deserialize: the first byte and the rest
u8_mc_deserialize(data) ==
    IF data = << >> THEN Err(InsufficientData)
    ELSE Deserialized_ok(Head(data), Tail(data))

---------------------------------------------------------------------------
(* proto_byte_enum!(Difficulty, 0x02 :: Normal, 0x00 :: Peaceful,          *)
(*                  0x03 :: Hard)                                          *)

EnumTable ==
    << [bval |-> 2, nam |-> "Normal"],
       [bval |-> 0, nam |-> "Peaceful"],
       [bval |-> 3, nam |-> "Hard"] >>

EnumVariants == {EnumTable[i].nam : i \in DOMAIN EnumTable}

EnumLiterals == {EnumTable[i].bval : i \in DOMAIN EnumTable}

None == [some |-> FALSE]

Some(val) == [some |-> TRUE, val |-> val]

\* a from_byte whose wildcard arm falls back to the first variant
from_byte_Default(b) ==
    IF \E i \in DOMAIN EnumTable : EnumTable[i].bval = b
    THEN Some(EnumTable[CHOOSE i \in DOMAIN EnumTable :
                  /\ EnumTable[i].bval = b
                  /\ \A j \in 1..(i - 1) : EnumTable[j].bval # b].nam)
    ELSE Some(EnumTable[1].nam)

\* $from_nam(b): match b.into() { $($bval => Some($nam)),*, _ => None };
\* the first arm whose literal is b is taken
from_byte(b) ==
    IF \E i \in DOMAIN EnumTable : EnumTable[i].bval = b
    THEN Some(EnumTable[CHOOSE i \in DOMAIN EnumTable :
                  /\ EnumTable[i].bval = b
                  /\ \A j \in 1..(i - 1) : EnumTable[j].bval # b].nam)
    ELSE None

\* $as_nam(&self) = (*self).into(): match self { $($nam => $bval.into()),* }
as_byte(self) ==
    EnumTable[CHOOSE i \in DOMAIN EnumTable : EnumTable[i].nam = self].bval

\* impl Serialize for $typname: to.serialize_other(&self.$as_nam())
enum_mc_serialize(self) == u8_mc_serialize(as_byte(self))

\* impl Deserialize for $typname
enum_mc_deserialize(typname, data) ==
    LET r == u8_mc_deserialize(data) IN
    IF ~r.ok THEN r
    ELSE LET found == from_byte(r.value) IN
         IF found.some THEN Deserialized_ok(found.val, r.data)
         ELSE Err(CannotUnderstandValue(typname, r.value))

---------------------------------------------------------------------------
(* proto_byte_flag: the record's codec *)

\* impl Serialize for $typname: to.serialize_byte(self.0)
flag_mc_serialize(self) == << self >>

\* impl Deserialize for $typname: Ok(u8::mc_deserialize(data)?.map(|b| $typname(b)))
flag_mc_deserialize(data) ==
    LET r == u8_mc_deserialize(data) IN
    IF ~r.ok THEN r ELSE Deserialized_ok(r.value, r.data)

---------------------------------------------------------------------------
(* define_protocol!(Packet, Direction, State, i32, Id => { ... }): the     *)
(* packet table, in declaration order                                      *)

PacketTable ==
    << [nam |-> "Ping", id |-> 0, state |-> "Play", direction |-> "Serverbound",
        body |-> "PingBody",
        fields |-> << [fnam |-> "payload", ftyp |-> "u8"] >>],
       [nam |-> "Pong", id |-> 1, state |-> "Play", direction |-> "Clientbound",
        body |-> "PongBody",
        fields |-> << >>],
       [nam |-> "Settings", id |-> 0, state |-> "Play", direction |-> "Clientbound",
        body |-> "SettingsBody",
        fields |-> << [fnam |-> "difficulty", ftyp |-> "Difficulty"],
                      [fnam |-> "abilities", ftyp |-> "AbilityFlags"] >>],
       [nam |-> "Chunk", id |-> 0, state |-> "Login", direction |-> "Serverbound",
        body |-> "ChunkBody",
        fields |-> << [fnam |-> "sections", ftyp |-> "ByteCountedArray<u8>"],
                      [fnam |-> "tail", ftyp |-> "u8"] >>],
       [nam |-> "Votes", id |-> 1, state |-> "Login", direction |-> "Clientbound",
        body |-> "VotesBody",
        fields |-> << [fnam |-> "picks", ftyp |-> "ByteCountedArray<Difficulty>"] >>] >>

BodyTypes == {PacketTable[i].body : i \in DOMAIN PacketTable}

\* the fields of body record $body, in declaration order
BodyFields(bodyt) ==
    PacketTable[CHOOSE i \in DOMAIN PacketTable : PacketTable[i].body = bodyt].fields

\* counted_array_type!(ByteCountedArray, u8, u8_to_usize, u8_from_usize)
ArrayTypes == {"ByteCountedArray<u8>", "ByteCountedArray<Difficulty>"}

\* the T of ByteCountedArray<T>
ElemOf(typ) == IF typ = "ByteCountedArray<u8>" THEN "u8" ELSE "Difficulty"

\* $tousize_fn: the counter as a count
u8_to_usize(raw_count) == raw_count

\* $fromusize_fn: a length as the counter, an `as u8` cast
u8_from_usize(len) == len % 256

WireTypes == {"u8", "Difficulty", "AbilityFlags"} \cup ArrayTypes \cup BodyTypes

RECURSIVE Serialize(_, _)
RECURSIVE Deserialize(_, _)

---------------------------------------------------------------------------
(* counted_array_type: impl Serialize / Deserialize for $name<T> *)

\* for entry in &self.data { to.serialize_other(entry)?; }
RECURSIVE SerializeEntries(_, _)
SerializeEntries(T, entries) ==
    IF entries = << >> THEN << >>
    ELSE Serialize(T, Head(entries)) \o SerializeEntries(T, Tail(entries))

\* mc_serialize: the counter, then the entries
array_mc_serialize(typ, self) ==
    u8_mc_serialize(u8_from_usize(Len(self.data)))
        \o SerializeEntries(ElemOf(typ), self.data)

\* a loop that gives back what it has read when an element fails
RECURSIVE ArrayLoop_Partial(_, _, _, _)
ArrayLoop_Partial(T, count, data, out) ==
    IF count = 0 THEN Deserialized_ok([data |-> out], data)
    ELSE LET r == Deserialize(T, data) IN
         IF ~r.ok THEN Deserialized_ok([data |-> out], data)
         ELSE ArrayLoop_Partial(T, count - 1, r.data, Append(out, r.value))

\* for _ in 0..count { T::mc_deserialize(data)?; data = rest; out.push(next) }
\* Deserialized::ok(Self { data: out }, data)
RECURSIVE ArrayLoop(_, _, _, _)
ArrayLoop(T, count, data, out) ==
    IF count = 0 THEN Deserialized_ok([data |-> out], data)
    ELSE LET r == Deserialize(T, data) IN
         IF ~r.ok THEN r
         ELSE ArrayLoop(T, count - 1, r.data, Append(out, r.value))

\* a decoder whose loop runs over 0..=count
array_mc_deserialize_Inclusive(typ, data) ==
    LET c == u8_mc_deserialize(data) IN
    IF ~c.ok THEN c
    ELSE ArrayLoop(ElemOf(typ), u8_to_usize(c.value) + 1, c.data, << >>)

\* mc_deserialize: the counter, its count, then count elements
array_mc_deserialize(typ, data) ==
    LET c == u8_mc_deserialize(data) IN
    IF ~c.ok THEN c
    ELSE ArrayLoop(ElemOf(typ), u8_to_usize(c.value), c.data, << >>)

---------------------------------------------------------------------------
(* __protocol_body_def_helper: impl Serialize / Deserialize for $bodyt.    *)
(* A body value is the tuple of its fields' values, in declaration order.  *)

\* $( to.serialize_other(&self.$fname)?; )+
RECURSIVE SerializeFields(_, _)
SerializeFields(fields, self) ==
    IF fields = << >> THEN << >>
    ELSE Serialize(Head(fields).ftyp, Head(self))
             \o SerializeFields(Tail(fields), Tail(self))

\* mc_serialize; a zero-field body writes nothing
body_mc_serialize(bodyt, self) ==
    IF BodyFields(bodyt) = << >> THEN << >>
    ELSE SerializeFields(BodyFields(bodyt), self)

\* a decoder that reads every field from the start of the buffer
RECURSIVE DeserializeFields_NoThread(_, _, _)
DeserializeFields_NoThread(fields, rest, out) ==
    IF fields = << >> THEN Deserialized_ok(out, rest)
    ELSE LET r == Deserialize(Head(fields).ftyp, rest) IN
         IF ~r.ok THEN r
         ELSE IF Len(fields) = 1
              THEN Deserialized_ok(Append(out, r.value), r.data)
              ELSE DeserializeFields_NoThread(Tail(fields), rest, Append(out, r.value))

\* $(let Deserialized{ value: $fname, data: _rest } = <$ftyp>::mc_deserialize(_rest)?;)+
\* Deserialized::ok(Self{ $($fname),+ }, _rest)
RECURSIVE DeserializeFields(_, _, _)
DeserializeFields(fields, rest, out) ==
    IF fields = << >> THEN Deserialized_ok(out, rest)
    ELSE LET r == Deserialize(Head(fields).ftyp, rest) IN
         IF ~r.ok THEN r
         ELSE DeserializeFields(Tail(fields), r.data, Append(out, r.value))

\* mc_deserialize; a zero-field body is Self::default() and the whole buffer
body_mc_deserialize(bodyt, data) ==
    IF BodyFields(bodyt) = << >> THEN Deserialized_ok(<< >>, data)
    ELSE DeserializeFields(BodyFields(bodyt), data, << >>)

---------------------------------------------------------------------------
(* <T as Serialize>::mc_serialize and <T as Deserialize>::mc_deserialize,  *)
(* by the type's impl                                                      *)

Serialize(typ, v) ==
    CASE typ = "u8" -> u8_mc_serialize(v)
      [] typ = "Difficulty" -> enum_mc_serialize(v)
      [] typ = "AbilityFlags" -> flag_mc_serialize(v)
      [] typ \in ArrayTypes -> array_mc_serialize(typ, v)
      [] typ \in BodyTypes -> body_mc_serialize(typ, v)

Deserialize(typ, data) ==
    CASE typ = "u8" -> u8_mc_deserialize(data)
      [] typ = "Difficulty" -> enum_mc_deserialize(typ, data)
      [] typ = "AbilityFlags" -> flag_mc_deserialize(data)
      [] typ \in ArrayTypes -> array_mc_deserialize(typ, data)
      [] typ \in BodyTypes -> body_mc_deserialize(typ, data)

---------------------------------------------------------------------------
(* define_protocol: impl Packet<Id> for $packett, impl Serialize.          *)
(* A packet value is [nam |-> the variant, body |-> its body record].      *)

States == {"Login", "Play"}

Directions == {"Serverbound", "Clientbound"}

\* the numeric ids raw packets carry
PacketIds == 0..2

\* struct $idi { id, state, direction }
Id(id, state, direction) == [id |-> id, state |-> state, direction |-> direction]

Ids == {Id(i, s, d) : i \in PacketIds, s \in States, d \in Directions}

\* PacketErr
UnknownId(id) == [kind |-> "UnknownId", id |-> id]

DeserializeFailed(e) == [kind |-> "DeserializeFailed", inner |-> e]

\* Packet::id: match self { $($nam(_) => ($id, $state, $direction)),* }.into()
Packet_id(self) ==
    LET a == PacketTable[CHOOSE i \in DOMAIN PacketTable :
                             PacketTable[i].nam = self.nam]
    IN Id(a.id, a.state, a.direction)

\* an arm pattern that looks at the numeric id alone
ArmMatches_IdOnly(a, id) == id.id = a.id

\* the pattern ($id, $state, $direction) against (id.id, id.state, id.direction)
ArmMatches(a, id) ==
    <<id.id, id.state, id.direction>> = <<a.id, a.state, a.direction>>

\* an arm that reports a failed body decode as an unknown id
Arm_DropsError(a, id, data) ==
    LET r == Deserialize(a.body, data) IN
    IF ~r.ok THEN [ok |-> FALSE, err |-> UnknownId(id.id)]
    ELSE [ok |-> TRUE, value |-> [nam |-> a.nam, body |-> r.value]]

\* an arm that refuses a body followed by more bytes
Arm_Strict(a, id, data) ==
    LET r == Deserialize(a.body, data) IN
    IF ~r.ok THEN [ok |-> FALSE, err |-> DeserializeFailed(r.err)]
    ELSE IF r.data # << >>
         THEN [ok |-> FALSE, err |-> DeserializeFailed(InsufficientData)]
         ELSE [ok |-> TRUE, value |-> [nam |-> a.nam, body |-> r.value]]

\* Ok($nam($body::mc_deserialize(data).map_err(DeserializeFailed)?.value))
Arm(a, id, data) ==
    LET r == Deserialize(a.body, data) IN
    IF ~r.ok THEN [ok |-> FALSE, err |-> DeserializeFailed(r.err)]
    ELSE [ok |-> TRUE, value |-> [nam |-> a.nam, body |-> r.value]]

\* match (id.id, id.state, id.direction) { arms..., other => Err(UnknownId(other.0)) }
RECURSIVE MatchArms(_, _, _)
MatchArms(arms, id, data) ==
    IF arms = << >> THEN [ok |-> FALSE, err |-> UnknownId(id.id)]
    ELSE IF ArmMatches(Head(arms), id) THEN Arm(Head(arms), id, data)
    ELSE MatchArms(Tail(arms), id, data)

\* Packet::mc_deserialize(raw: RawPacket<Id>)
Packet_mc_deserialize(raw) == MatchArms(PacketTable, raw.id, raw.data)

\* a packet encoder that writes the numeric id before the body
Packet_mc_serialize_WithId(self) ==
    << Packet_id(self).id >>
        \o Serialize(PacketTable[CHOOSE i \in DOMAIN PacketTable :
                                     PacketTable[i].nam = self.nam].body, self.body)

\* impl Serialize for $packett: match self { $($nam(body) => to.serialize_other(body)),+ }
Packet_mc_serialize(self) ==
    Serialize(PacketTable[CHOOSE i \in DOMAIN PacketTable :
                              PacketTable[i].nam = self.nam].body, self.body)

---------------------------------------------------------------------------
(* The values the operations are called with *)

SeqsUpTo(S, n) == UNION {[1..k -> S] : k \in 0..n}

RECURSIVE Values(_)

RECURSIVE FieldTuples(_)
FieldTuples(fields) ==
    IF fields = << >> THEN {<< >>}
    ELSE {<< v >> \o t : v \in Values(Head(fields).ftyp), t \in FieldTuples(Tail(fields))}

Values(typ) ==
    CASE typ = "u8" -> ByteSamples
      [] typ = "Difficulty" -> EnumVariants
      [] typ = "AbilityFlags" -> ByteSamples
      [] typ \in ArrayTypes -> {[data |-> d] : d \in SeqsUpTo(Values(ElemOf(typ)), MaxLen)}
      [] typ \in BodyTypes -> FieldTuples(BodyFields(typ))

PacketValues ==
    UNION {{[nam |-> PacketTable[i].nam, body |-> b] : b \in Values(PacketTable[i].body)} :
           i \in DOMAIN PacketTable}

---------------------------------------------------------------------------
(* The operations *)

NoFlagCall == [op |-> "none"]

NoSent == [typ |-> "none"]

NoCall == [op |-> "none"]

\* r.set_<nam>(value)
SetFlag(bval, value) ==
    /\ flags' = set_(flags, bval, value)
    /\ flagCall' = [op |-> "set", bval |-> bval, value |-> value,
                    before |-> flags, after |-> set_(flags, bval, value)]
    /\ UNCHANGED <<sink, sent, last>>

\* r.with_<nam>(value): r is Copy, the caller's record stays as it was
WithFlag(bval, value) ==
    /\ flagCall' = [op |-> "with", bval |-> bval, value |-> value,
                    before |-> flags, after |-> with_(flags, bval, value)]
    /\ UNCHANGED <<flags, sink, sent, last>>

\* r.is_<nam>()
IsFlag(bval) ==
    /\ flagCall' = [op |-> "is", bval |-> bval, value |-> is_(flags, bval),
                    before |-> flags, after |-> flags]
    /\ UNCHANGED <<flags, sink, sent, last>>

\* r = AbilityFlags::mc_deserialize(&[b]): every byte is a record
FlagDeserialize(b) ==
    /\ flags' = flag_mc_deserialize(<< b >>).value
    /\ flagCall' = NoFlagCall
    /\ UNCHANGED <<sink, sent, last>>

\* v.mc_serialize(&mut to) on an empty sink
SerializeValue(typ, v) ==
    /\ sink = << >> /\ sent = NoSent /\ last = NoCall
    /\ sink' = Serialize(typ, v)
    /\ sent' = [typ |-> typ, value |-> v, len |-> Len(Serialize(typ, v))]
    /\ UNCHANGED <<flags, flagCall, last>>

\* p.mc_serialize(&mut to) of a packet on an empty sink
SerializePacket(p) ==
    /\ sink = << >> /\ sent = NoSent /\ last = NoCall
    /\ sink' = Packet_mc_serialize(p)
    /\ sent' = [typ |-> "Packet", value |-> p, len |-> Len(Packet_mc_serialize(p))]
    /\ UNCHANGED <<flags, flagCall, last>>

\* to.serialize_byte(b): one more byte after the serialized value
SerializeByte(b) ==
    /\ sent # NoSent /\ last = NoCall
    /\ Len(sink) - sent.len < MaxSuffix
    /\ sink' = Append(sink, b)
    /\ UNCHANGED <<flags, flagCall, sent, last>>

\* a buffer received from outside
Receive(data) ==
    /\ sink = << >> /\ sent = NoSent /\ last = NoCall
    /\ sink' = data
    /\ UNCHANGED <<flags, flagCall, sent, last>>

\* <typ>::mc_deserialize(&sink): a serialized value is read back as its own
\* type, a received buffer as any type
DeserializeValue(typ) ==
    /\ last = NoCall
    /\ sent = NoSent \/ sent.typ = typ
    /\ last' = [op |-> "deserialize", typ |-> typ, ret |-> Deserialize(typ, sink)]
    /\ UNCHANGED <<flags, flagCall, sink, sent>>

\* Packet::mc_deserialize(RawPacket { id, data: &sink }) of a serialized
\* packet or of a received buffer, under any id
Dispatch(id) ==
    /\ last = NoCall
    /\ sent = NoSent \/ sent.typ = "Packet"
    /\ last' = [op |-> "dispatch", id |-> id,
                ret |-> Packet_mc_deserialize([id |-> id, data |-> sink])]
    /\ UNCHANGED <<flags, flagCall, sink, sent>>

\* the buffer and the result are dropped
NewSink ==
    /\ sink # << >> \/ sent # NoSent \/ last # NoCall
    /\ sink' = << >>
    /\ sent' = NoSent
    /\ last' = NoCall
    /\ UNCHANGED <<flags, flagCall>>

---------------------------------------------------------------------------
Init ==
    /\ flags = 0
    /\ flagCall = NoFlagCall
    /\ sink = << >>
    /\ sent = NoSent
    /\ last = NoCall

NextFlags ==
    \/ \E bval \in FlagMasks, value \in BOOLEAN : SetFlag(bval, value)
    \/ \E bval \in FlagMasks, value \in BOOLEAN : WithFlag(bval, value)
    \/ \E bval \in FlagMasks : IsFlag(bval)
    \/ \E b \in U8 : FlagDeserialize(b)

NextCodec ==
    \/ \E typ \in WireTypes : \E v \in Values(typ) : SerializeValue(typ, v)
    \/ \E p \in PacketValues : SerializePacket(p)
    \/ \E b \in SuffixBytes : SerializeByte(b)
    \/ \E data \in SeqsUpTo(ByteSamples, MaxData) : Receive(data)
    \/ \E typ \in WireTypes : DeserializeValue(typ)
    \/ \E id \in Ids : Dispatch(id)
    \/ NewSink

\* the flag record's accessors
SpecFlags == Init /\ [][NextFlags]_vars

\* the codecs and the dispatch
Spec == Init /\ [][NextCodec]_vars

---------------------------------------------------------------------------
(* Properties of the flag record, under SpecFlags *)

\* C1: after r.set_f(v), and for the record r.with_f(v) returns, is_f() = v
\* whatever r held before, and the same call applied again changes nothing.
C1_SetGivesValue ==
    flagCall.op \in {"set", "with"} =>
        /\ is_(flagCall.after, flagCall.bval) = flagCall.value
        /\ flagCall.op = "set" =>
               set_(flagCall.after, flagCall.bval, flagCall.value) = flagCall.after
        /\ flagCall.op = "with" =>
               with_(flagCall.after, flagCall.bval, flagCall.value) = flagCall.after

\* C8: set_f(v) and with_f(v) change no bit outside f's mask, so every flag
\* whose mask shares no bit with it reads as before; is_f leaves the record
\* as it was.
C8_FlagsIndependent ==
    /\ flagCall.op \in {"set", "with"} =>
           /\ BitAnd(flagCall.after, 255 - flagCall.bval)
                  = BitAnd(flagCall.before, 255 - flagCall.bval)
           /\ \A g \in FlagMasks :
                  BitAnd(g, flagCall.bval) = 0 =>
                      is_(flagCall.after, g) = is_(flagCall.before, g)
    /\ flagCall.op = "is" => flagCall.after = flagCall.before /\ flags = flagCall.before

\* set_flying(false) on a record with flying clear and three other flags set
C8_Witness ==
    /\ flagCall.op = "set"
    /\ flagCall.bval = 2
    /\ flagCall.value = FALSE
    /\ flagCall.before = 13

---------------------------------------------------------------------------
(* Properties of the codecs and the dispatch, under Spec *)

\* the bytes of the serialized value, and the bytes written after it
Encoded == SubSeq(sink, 1, sent.len)

Suffix == SubSeq(sink, sent.len + 1, Len(sink))

\* the triple declared for entry i of the packet table
Declared(i) == Id(PacketTable[i].id, PacketTable[i].state, PacketTable[i].direction)

NoDuplicateTriples ==
    \A i, j \in DOMAIN PacketTable : i # j => Declared(i) # Declared(j)

DistinctLiterals ==
    \A i, j \in DOMAIN EnumTable : i # j => EnumTable[i].bval # EnumTable[j].bval

\* C2: with no duplicate triples, a dispatch whose triple is declared and
\* whose data the body decoder accepts returns the variant declared for that
\* triple, holding the decoded body; a dispatch whose triple is not declared
\* fails with UnknownId of the raw packet's numeric id, whatever the data.
C2_DispatchByTriple ==
    (NoDuplicateTriples /\ last.op = "dispatch") =>
        LET hits == {i \in DOMAIN PacketTable : Declared(i) = last.id} IN
        IF hits = {} THEN last.ret = [ok |-> FALSE, err |-> UnknownId(last.id.id)]
        ELSE \A i \in hits :
                 LET b == Deserialize(PacketTable[i].body, sink) IN
                 /\ last.ret.ok => last.ret.value.nam = PacketTable[i].nam
                 /\ b.ok => last.ret = [ok |-> TRUE,
                                        value |-> [nam |-> PacketTable[i].nam,
                                                   body |-> b.value]]

\* a serialized Ping dispatched under its numeric id with another state and
\* direction is an unknown id
C2_Witness ==
    /\ last.op = "dispatch"
    /\ sent.typ = "Packet"
    /\ sent.value.nam = "Ping"
    /\ last.id = Id(0, "Login", "Clientbound")
    /\ last.ret = [ok |-> FALSE, err |-> UnknownId(0)]

\* C3: decoding a body record's encoding followed by any suffix gives back
\* the record and exactly the suffix (the empty one included), and the
\* encoding is the fields' encodings in declaration order; the zero-field
\* body included.
C3_BodyRoundTrip ==
    (last.op = "deserialize" /\ sent.typ \in BodyTypes /\ last.typ = sent.typ) =>
        LET f == BodyFields(sent.typ)
            cat[k \in 0..Len(f)] ==
                IF k = 0 THEN << >>
                ELSE cat[k - 1] \o Serialize(f[k].ftyp, sent.value[k])
        IN /\ last.ret = Deserialized_ok(sent.value, Suffix)
           /\ Encoded = cat[Len(f)]

\* a Chunk body with a non-empty sequence, read back with bytes after it
C3_Witness ==
    /\ last.op = "deserialize"
    /\ sent.typ = "ChunkBody"
    /\ last.typ = "ChunkBody"
    /\ sent.value[1].data # << >>
    /\ Suffix # << >>
    /\ last.ret.ok

\* C4: with distinct literals, every variant's encoding decodes to the
\* variant, with the remainder the u8 decoder leaves, and from_byte of its
\* literal is the variant; a literal that is not declared has no variant and
\* its decode fails with CannotUnderstandValue.
C4_EnumBijection ==
    (DistinctLiterals /\ last.op = "deserialize" /\ last.typ = "Difficulty") =>
        /\ \A v \in EnumVariants : from_byte(as_byte(v)) = Some(v)
        /\ \A b \in U8 \ EnumLiterals : from_byte(b) = None
        /\ sent.typ = "Difficulty" =>
               /\ Encoded = << as_byte(sent.value) >>
               /\ last.ret = Deserialized_ok(sent.value, u8_mc_deserialize(sink).data)
        /\ (sink # << >> /\ sink[1] \notin EnumLiterals) =>
               last.ret = Err(CannotUnderstandValue("Difficulty", sink[1]))

\* the literal 255, which no variant has, is refused
C4_Witness ==
    /\ last.op = "deserialize"
    /\ last.typ = "Difficulty"
    /\ sink # << >>
    /\ sink[1] = 255
    /\ ~last.ret.ok
    /\ last.ret.err.kind = "CannotUnderstandValue"

\* C5: a counted sequence whose length the counter represents serializes as
\* the counter of its length followed by its elements' encodings in order,
\* and decodes to the same elements in the same order, that many of them,
\* with nothing left.
C5_SequenceRoundTrip ==
    (/\ last.op = "deserialize"
     /\ sent.typ \in ArrayTypes
     /\ last.typ = sent.typ
     /\ Len(sink) = sent.len
     /\ u8_to_usize(u8_from_usize(Len(sent.value.data))) = Len(sent.value.data)) =>
        LET d == sent.value.data
            cat[k \in 0..Len(d)] ==
                IF k = 0 THEN << >>
                ELSE cat[k - 1] \o Serialize(ElemOf(sent.typ), d[k])
        IN /\ sink = << u8_from_usize(Len(d)) >> \o cat[Len(d)]
           /\ last.ret.ok
           /\ Len(last.ret.value.data) = Len(d)
           /\ last.ret.value.data = d
           /\ last.ret.data = << >>

\* a sequence of two Difficulty values read back
C5_Witness ==
    /\ last.op = "deserialize"
    /\ sent.typ = "ByteCountedArray<Difficulty>"
    /\ last.typ = sent.typ
    /\ Len(sent.value.data) = 2
    /\ Len(sink) = sent.len
    /\ last.ret.ok

\* C6: a counted-sequence decode fails with the counter's error when the
\* counter decode fails; otherwise it decodes count elements, each from what
\* the one before left, fails with the first failing element's error
\* (no sequence is returned), and on success returns what the last element
\* left (what the counter left when count is 0).
C6_SequenceDecode ==
    (last.op = "deserialize" /\ last.typ \in ArrayTypes) =>
        LET c == u8_mc_deserialize(sink) IN
        IF ~c.ok THEN last.ret = c
        ELSE LET n == u8_to_usize(c.value)
                 \* an element takes a byte at least: when the counter announces
                 \* more elements than there are bytes, a decode has failed by
                 \* element Len(c.data) + 1, and that failure is the result
                 top == IF n <= Len(c.data) THEN n ELSE Len(c.data) + 1
                 step[k \in 0..top] ==
                     IF k = 0 THEN [ok |-> TRUE, vals |-> << >>, data |-> c.data]
                     ELSE LET p == step[k - 1] IN
                          IF ~p.ok THEN p
                          ELSE LET r == Deserialize(ElemOf(last.typ), p.data) IN
                               IF r.ok
                               THEN [ok |-> TRUE, vals |-> Append(p.vals, r.value),
                                     data |-> r.data]
                               ELSE [ok |-> FALSE, err |-> r.err]
             IN /\ top < n => ~step[top].ok
                /\ step[top].ok =>
                       last.ret = Deserialized_ok([data |-> step[top].vals],
                                                  step[top].data)
                /\ ~step[top].ok => last.ret = Err(step[top].err)

\* a buffer that ends after the first of the elements its counter announces
C6_Witness ==
    /\ last.op = "deserialize"
    /\ last.typ = "ByteCountedArray<u8>"
    /\ Len(sink) = 2
    /\ sink[1] = 2
    /\ last.ret = Err(InsufficientData)

\* C7: a dispatch whose triple is declared and whose body decode fails with
\* e fails with DeserializeFailed(e): not UnknownId, not a packet, and not
\* another entry's result.
C7_BodyErrorKept ==
    last.op = "dispatch" =>
        \A i \in DOMAIN PacketTable :
            LET b == Deserialize(PacketTable[i].body, sink) IN
            (Declared(i) = last.id /\ ~b.ok) =>
                last.ret = [ok |-> FALSE, err |-> DeserializeFailed(b.err)]

\* Settings dispatched on a byte that is no Difficulty
C7_Witness ==
    /\ last.op = "dispatch"
    /\ last.id = Id(0, "Play", "Clientbound")
    /\ ~last.ret.ok
    /\ last.ret.err.kind = "DeserializeFailed"
    /\ last.ret.err.inner.kind = "CannotUnderstandValue"

\* C9: with no duplicate triples, a packet's encoding is its body's encoding
\* alone, its id() is the triple declared for its variant, and dispatching
\* the encoding under that id returns the packet.
C9_PacketRoundTrip ==
    (/\ NoDuplicateTriples
     /\ last.op = "dispatch"
     /\ sent.typ = "Packet"
     /\ Len(sink) = sent.len
     /\ last.id = Packet_id(sent.value)) =>
        /\ \E i \in DOMAIN PacketTable :
               /\ PacketTable[i].nam = sent.value.nam
               /\ Declared(i) = last.id
               /\ sink = Serialize(PacketTable[i].body, sent.value.body)
        /\ last.ret = [ok |-> TRUE, value |-> sent.value]

\* a Chunk packet with two sections dispatched under its own id
C9_Witness ==
    /\ last.op = "dispatch"
    /\ sent.typ = "Packet"
    /\ sent.value.nam = "Chunk"
    /\ Len(sent.value.body[1].data) = 2
    /\ Len(sink) = sent.len
    /\ last.id = Packet_id(sent.value)
    /\ last.ret.ok

\* C10: a dispatch whose body decoder leaves bytes over succeeds all the
\* same, with the packet the body alone gives; the result holds no remainder.
C10_TrailingBytesDropped ==
    last.op = "dispatch" =>
        /\ last.ret.ok => DOMAIN last.ret = {"ok", "value"}
        /\ (sent.typ = "Packet" /\ last.id = Packet_id(sent.value)) =>
               last.ret = [ok |-> TRUE, value |-> sent.value]
        /\ \A i \in DOMAIN PacketTable :
               LET b == Deserialize(PacketTable[i].body, sink) IN
               (Declared(i) = last.id /\ b.ok /\ b.data # << >>) =>
                   last.ret = [ok |-> TRUE,
                               value |-> [nam |-> PacketTable[i].nam, body |-> b.value]]

\* a serialized packet with a byte after it, dispatched under its own id
C10_Witness ==
    /\ last.op = "dispatch"
    /\ sent.typ = "Packet"
    /\ Len(sink) > sent.len
    /\ last.id = Packet_id(sent.value)
    /\ last.ret.ok

===========================================================================
